---------------------------- MODULE Spec2Model ----------------------------
(***************************************************************************)
(* Model of the GenVis browser client (frontend/src/App.js): the workflow  *)
(* orchestrator (three submit handlers, the tab buttons) and the status     *)
(* poller (the mount effect with its interval timer and its cleanup).       *)
(***************************************************************************)
EXTENDS Integers, Sequences, FiniteSets, TLC

VARIABLES
    activeTab,          \* useState('ideation')
    loading,            \* useState(false)
    result,             \* useState(null)
    error,              \* useState(null)
    integrationStatus,  \* useState(null)
    pending,            \* workflow POSTs awaiting their response, in issue order
    lastReply,          \* history: the reply handled by the last resumed submit handler
    effect,             \* life cycle of the mount effect: "pending", "ran", "cleaned"
    mounted,            \* the effect's closure variable `mounted`
    interval,           \* TRUE while the setInterval timer is armed
    timerElapsed,       \* ms since the interval timer was armed or last fired
    issued,             \* number of status fetches issued so far
    inFlight,           \* ids of the status GETs awaiting their response
    lastCompleted,      \* history: id and outcome of the fetch that completed last
    statusWriter,       \* history: id of the fetch whose handler wrote integrationStatus
    backendHealthy,     \* environment: TRUE once the status endpoint answers every fetch with 2xx
    pushes,             \* one-shot integration POSTs awaiting their response, in issue order
    lastAlert,          \* the message of the last alert() raised
    called,             \* the helper functions applied to arg so far, innermost first
    arg,                \* the argument of the helper function
    now,                \* what Date.now() returns
    ret                 \* what the helper function returned

workflowVars == <<activeTab, loading, result, error, pending, lastReply>>
pollerVars == <<integrationStatus, effect, mounted, interval, timerElapsed,
                issued, inFlight, lastCompleted, statusWriter>>
envVars == <<backendHealthy>>
pushVars == <<pushes, lastAlert>>
callVars == <<called, arg, now, ret>>
vars == <<activeTab, loading, result, error, pending, lastReply,
          integrationStatus, effect, mounted, interval, timerElapsed,
          issued, inFlight, lastCompleted, statusWriter,
          backendHealthy, pushes, lastAlert, called, arg, now, ret>>

(***************************************************************************)
(* Bounds of the model.                                                    *)
(***************************************************************************)
MaxPending == 2     \* workflow requests the model lets be outstanding at once
MaxFetches == 3     \* status fetches issued in one run
MaxPushes == 2      \* integration pushes the model lets be outstanding at once
MaxItems == 3       \* length of the arrays given to the normalizers
MaxLen == 4         \* length of the strings given to formatPainPoint

(***************************************************************************)
(* JavaScript values: null, undefined, NaN, numbers, booleans, strings,     *)
(* arrays and plain objects. The text of a string is a sequence: of its    *)
(* characters (Chars), or of the one token that stands for a whole text    *)
(* (Str); the empty string is the empty sequence either way.               *)
(***************************************************************************)
Null == [type |-> "null"]
Undefined == [type |-> "undefined"]
NaN == [type |-> "nan"]
Num(n) == [type |-> "number", val |-> n]
Bool(b) == [type |-> "boolean", val |-> b]
Chars(cs) == [type |-> "string", val |-> cs]
Str(s) == [type |-> "string", val |-> IF s = "" THEN <<>> ELSE <<s>>]
Arr(items) == [type |-> "array", items |-> items]
Obj(p) == [type |-> "object", props |-> p]

\* ToBoolean, as applied by `||`, `&&` and `!`
Truthy(v) ==
    CASE v.type = "null" -> FALSE
      [] v.type = "undefined" -> FALSE
      [] v.type = "nan" -> FALSE
      [] v.type = "number" -> v.val # 0
      [] v.type = "boolean" -> v.val
      [] v.type = "string" -> v.val # <<>>
      [] OTHER -> TRUE

\* typeof v
TypeOf(v) ==
    CASE v.type \in {"null", "array", "object"} -> "object"
      [] v.type \in {"nan", "number"} -> "number"
      [] OTHER -> v.type

\* a || b
Or(a, b) == IF Truthy(a) THEN a ELSE b

\* o.k on an object (undefined when the property is missing)
Get(o, k) == IF o.type = "object" /\ k \in DOMAIN o.props THEN o.props[k] ELSE Undefined

\* o?.k
OptGet(o, k) == IF o.type \in {"null", "undefined"} THEN Undefined ELSE Get(o, k)

(***************************************************************************)
(* The workflow orchestrator.                                              *)
(***************************************************************************)
tabs == {"ideation", "requirements", "reporting"}

\* The body of a 2xx answer of each workflow endpoint: {data: WorkflowResult}
OkBody(w) ==
    CASE w = "ideation" -> Obj([data |-> Obj([pain_points |-> Str("Manual review is slow")])])
      [] w = "requirements" -> Obj([data |-> Obj([user_stories |-> Str("As a user")])])
      [] w = "reporting" -> Obj([data |-> Obj([executive_summary |-> Str("Sprint done")])])

\* The errors axios rejects with: no response at all (network error), or an
\* error response whose body carries no detail, an empty or a readable one.
AxiosErrors ==
    { Obj([message |-> Str("Network Error")]),
      Obj([response |-> Obj([data |-> Obj([status |-> Str("error")])])]),
      Obj([response |-> Obj([data |-> Obj([detail |-> Str("")])])]),
      Obj([response |-> Obj([data |-> Obj([detail |-> Str("Service unavailable")])])]) }

Fallback(w) ==
    CASE w = "ideation" -> Str("Failed to generate ideas")
      [] w = "requirements" -> Str("Failed to generate requirements")
      [] w = "reporting" -> Str("Failed to generate report")

\* Mutant: the detail of the error response is never used
ErrorMessageFallbackOnly(w, err) == Fallback(w)

\* err.response?.data?.detail || '<fallback>'
ErrorMessage(w, err) ==
    Or(OptGet(OptGet(Get(err, "response"), "data"), "detail"), Fallback(w))

\* The pending sequence without its i-th entry
RemoveAt(s, i) == SubSeq(s, 1, i - 1) \o SubSeq(s, i + 1, Len(s))

\* The component is on screen: its first render is committed and its effects
\* have run, and it has not been unmounted.
OnScreen == effect = "ran"

\* Mutant: the submit button is never disabled
SubmitAlwaysEnabled == TRUE

\* <button type="submit" disabled={loading}>
SubmitEnabled == ~loading

\* A submit handler up to its await: setLoading(true); setError(null); axios.post(...)
HandleSubmit(w) ==
    /\ OnScreen
    /\ activeTab = w
    /\ SubmitEnabled
    /\ Len(pending) < MaxPending
    /\ loading' = TRUE
    /\ error' = Null
    /\ pending' = Append(pending, w)
    /\ UNCHANGED <<activeTab, result, lastReply>>
    /\ UNCHANGED <<pollerVars, envVars, pushVars, callVars>>

handleIdeation == HandleSubmit("ideation")
handleRequirements == HandleSubmit("requirements")
handleReport == HandleSubmit("reporting")

\* The handler resumes in its try block: setResult(response.data.data); then finally
SubmitResolvedWith(i, body) ==
    /\ i \in 1..Len(pending)
    /\ result' = Get(body, "data")
    /\ lastReply' = [ok |-> TRUE, value |-> body]
    /\ loading' = FALSE
    /\ pending' = RemoveAt(pending, i)
    /\ UNCHANGED <<activeTab, error>>
    /\ UNCHANGED <<pollerVars, envVars, pushVars, callVars>>

\* The same with the body the model gives each endpoint
SubmitResolved(i) ==
    /\ i \in 1..Len(pending)
    /\ SubmitResolvedWith(i, OkBody(pending[i]))

\* Mutant: the catch block without the finally, loading is left set
SubmitRejectedKeepsLoading(i, err) ==
    /\ i \in 1..Len(pending)
    /\ error' = ErrorMessage(pending[i], err)
    /\ lastReply' = [ok |-> FALSE, value |-> err]
    /\ pending' = RemoveAt(pending, i)
    /\ UNCHANGED <<activeTab, result, loading>>
    /\ UNCHANGED <<pollerVars, envVars, pushVars, callVars>>

\* The handler resumes in its catch block: setError(detail || fallback); then finally
SubmitRejected(i, err) ==
    /\ i \in 1..Len(pending)
    /\ error' = ErrorMessage(pending[i], err)
    /\ lastReply' = [ok |-> FALSE, value |-> err]
    /\ loading' = FALSE
    /\ pending' = RemoveAt(pending, i)
    /\ UNCHANGED <<activeTab, result>>
    /\ UNCHANGED <<pollerVars, envVars, pushVars, callVars>>

\* Mutant: the tab button also calls setLoading(false)
SwitchTabClearsLoading(key) ==
    /\ OnScreen
    /\ activeTab' = key
    /\ result' = Null
    /\ error' = Null
    /\ loading' = FALSE
    /\ UNCHANGED <<pending, lastReply>>
    /\ UNCHANGED <<pollerVars, envVars, pushVars, callVars>>

\* onClick of a tab button: setActiveTab(key); setResult(null); setError(null)
SwitchTab(key) ==
    /\ OnScreen
    /\ activeTab' = key
    /\ result' = Null
    /\ error' = Null
    /\ UNCHANGED <<loading, pending, lastReply>>
    /\ UNCHANGED <<pollerVars, envVars, pushVars, callVars>>

(***************************************************************************)
(* The one-shot integration actions.                                       *)
(***************************************************************************)
\* The body of a 2xx answer of POST /api/jira/push: {data: [created stories]}
JiraOkBody == Obj([data |-> Arr(<<Obj([key |-> Str("GEN-1")])>>)])

\* alert(`Successfully created ${response.data.data.length} stories in Jira.`)
\* and alert('Sprint summary posted to #product-updates.')
SuccessAlert(kind) ==
    CASE kind = "jira" ->
            Str("Successfully created "
                \o ToString(Len(Get(JiraOkBody, "data").items))
                \o " stories in Jira.")
      [] kind = "slack" -> Str("Sprint summary posted to #product-updates.")

\* alert('Failed to push to Jira') and alert('Failed to send to Slack')
FailureAlert(kind) ==
    CASE kind = "jira" -> Str("Failed to push to Jira")
      [] kind = "slack" -> Str("Failed to send to Slack")

\* The guards the handlers return early on:
\* if (!result || !result.user_stories) return;  and  if (!result) return;
PushGate(kind) ==
    CASE kind = "jira" -> Truthy(result) /\ Truthy(Get(result, "user_stories"))
      [] kind = "slack" -> Truthy(result)

\* The tab whose results block renders the button of each push
PushTab(kind) ==
    CASE kind = "jira" -> "requirements"
      [] kind = "slack" -> "reporting"

\* A click on a push button (rendered under {result && ...} on its tab): the
\* handler up to its await, or its early return
HandlePush(kind) ==
    /\ OnScreen
    /\ activeTab = PushTab(kind)
    /\ Truthy(result)
    /\ Len(pushes) < MaxPushes
    /\ pushes' = IF PushGate(kind) THEN Append(pushes, kind) ELSE pushes
    /\ UNCHANGED lastAlert
    /\ UNCHANGED <<workflowVars, pollerVars, envVars, callVars>>

pushToJira == HandlePush("jira")
sendToSlack == HandlePush("slack")

\* The handler resumes in its try block: alert(<success>)
PushResolved(i) ==
    /\ i \in 1..Len(pushes)
    /\ lastAlert' = SuccessAlert(pushes[i])
    /\ pushes' = RemoveAt(pushes, i)
    /\ UNCHANGED <<workflowVars, pollerVars, envVars, callVars>>

\* Mutant: a failed push is reported through the workflow's error state
PushRejectedSetsError(i) ==
    /\ i \in 1..Len(pushes)
    /\ lastAlert' = FailureAlert(pushes[i])
    /\ error' = FailureAlert(pushes[i])
    /\ pushes' = RemoveAt(pushes, i)
    /\ UNCHANGED <<activeTab, loading, result, pending, lastReply>>
    /\ UNCHANGED <<pollerVars, envVars, callVars>>

\* The handler resumes in its catch block: alert(<failure>)
PushRejected(i) ==
    /\ i \in 1..Len(pushes)
    /\ lastAlert' = FailureAlert(pushes[i])
    /\ pushes' = RemoveAt(pushes, i)
    /\ UNCHANGED <<workflowVars, pollerVars, envVars, callVars>>

(***************************************************************************)
(* The shape normalizer: normalizeArray, normalizeObjectArray and          *)
(* formatPainPoint.                                                         *)
(***************************************************************************)
\* Mutant: every falsy value counts as "no items"
normalizeArrayDropsFalsy(value) ==
    IF value.type = "array" THEN value
    ELSE IF ~Truthy(value) THEN Arr(<<>>)
    ELSE Arr(<<value>>)

\* Mutant: the value is wrapped even when it is an array already
normalizeArrayAlwaysWraps(value) ==
    IF value = Null \/ value = Undefined \/ value = Str("") THEN Arr(<<>>)
    ELSE Arr(<<value>>)

normalizeArray(value) ==
    IF value.type = "array" THEN value
    ELSE IF value = Null \/ value = Undefined \/ value = Str("") THEN Arr(<<>>)
    ELSE Arr(<<value>>)

\* Mutant: only null and undefined entries are filtered out
normalizeObjectArrayDropsNullish(value) ==
    IF value.type = "array"
    THEN Arr(SelectSeq(value.items, LAMBDA x : x.type \notin {"null", "undefined"}))
    ELSE IF Truthy(value) /\ TypeOf(value) = "object" THEN Arr(<<value>>)
    ELSE Arr(<<>>)

normalizeObjectArray(value) ==
    IF value.type = "array" THEN Arr(SelectSeq(value.items, Truthy))
    ELSE IF Truthy(value) /\ TypeOf(value) = "object" THEN Arr(<<value>>)
    ELSE Arr(<<>>)

\* The characters \s and trim() take as white space, and those \d takes
WhiteSpace == {" "}
Digits == {"4", "2"}

\* The number of consecutive characters of class `cls` in cs from index i on
RECURSIVE RunLength(_, _, _)
RunLength(cs, i, cls) ==
    IF i <= Len(cs) /\ cs[i] \in cls THEN 1 + RunLength(cs, i + 1, cls) ELSE 0

\* text.replace(/^\s*\d+[\.\)]\s*/, ''): the text without its leading match
StripEnumeration(cs) ==
    LET ws == RunLength(cs, 1, WhiteSpace)
        ds == RunLength(cs, ws + 1, Digits)
        p == ws + ds + 1
    IN  IF ds >= 1 /\ p <= Len(cs) /\ cs[p] \in {".", ")"}
        THEN SubSeq(cs, p + 1 + RunLength(cs, p + 1, WhiteSpace), Len(cs))
        ELSE cs

\* The number of white space characters at the end of cs
RECURSIVE TrailingSpace(_)
TrailingSpace(cs) ==
    IF cs # <<>> /\ cs[Len(cs)] \in WhiteSpace
    THEN 1 + TrailingSpace(SubSeq(cs, 1, Len(cs) - 1))
    ELSE 0

\* String.prototype.trim
Trim(cs) ==
    LET lead == RunLength(cs, 1, WhiteSpace) IN
    IF lead = Len(cs) THEN <<>>
    ELSE SubSeq(cs, lead + 1, Len(cs) - TrailingSpace(cs))

\* Mutant: a text that strips to nothing is returned as the empty string
formatPainPointNoRollback(text) ==
    IF ~Truthy(text) THEN Str("")
    ELSE IF TypeOf(text) # "string" THEN text
    ELSE Chars(Trim(StripEnumeration(text.val)))

\* Mutant: the guard on falsy input is missing
formatPainPointNoFalsyGuard(text) ==
    IF TypeOf(text) # "string" THEN text
    ELSE Or(Chars(Trim(StripEnumeration(text.val))), text)

formatPainPoint(text) ==
    IF ~Truthy(text) THEN Str("")
    ELSE IF TypeOf(text) # "string" THEN text
    ELSE Or(Chars(Trim(StripEnumeration(text.val))), text)

\* The helper functions of one argument, by name
Apply(f, v) ==
    CASE f = "normalizeArray" -> normalizeArray(v)
      [] f = "normalizeObjectArray" -> normalizeObjectArray(v)
      [] f = "formatPainPoint" -> formatPainPoint(v)

\* The values a field of a result may arrive as: scalars (undefined for a
\* missing field), objects, arrays of these, and texts by character
ScalarInputs ==
    { Null, Undefined, NaN, Num(0), Num(5), Bool(FALSE), Bool(TRUE), Str(""),
      Obj([name |-> Str("AutoFlag")]), Obj([a |-> Num(1)]) }

ItemInputs ==
    { Null, Undefined, Bool(FALSE), Num(0), Str(""), Str("Manual review is slow"),
      Obj([name |-> Str("AutoFlag")]), Obj([a |-> Num(1)]) }

ArrayInputs ==
    { Arr(items) : items \in UNION { [1..n -> ItemInputs] : n \in 0..MaxItems } }

Alphabet == WhiteSpace \cup Digits \cup {".", ")", "a"}

TextInputs ==
    { Chars(cs) : cs \in UNION { [1..n -> Alphabet] : n \in 0..MaxLen } }

NormalizerInputs == ScalarInputs \cup ArrayInputs \cup TextInputs

\* A render calls a helper on a field of the result
Call(f) ==
    /\ called = <<>>
    /\ called' = <<f>>
    /\ ret' = Apply(f, arg)
    /\ UNCHANGED <<arg, now>>
    /\ UNCHANGED <<workflowVars, pollerVars, envVars, pushVars>>

\* A list normalizer is applied to what it returned
CallAgain ==
    /\ Len(called) = 1
    /\ called[1] \in {"normalizeArray", "normalizeObjectArray"}
    /\ called' = Append(called, called[1])
    /\ ret' = Apply(called[1], ret)
    /\ UNCHANGED <<arg, now>>
    /\ UNCHANGED <<workflowVars, pollerVars, envVars, pushVars>>

(***************************************************************************)
(* Time bucketing: formatRelativeTime.                                     *)
(***************************************************************************)
\* The date strings Date parses in the model, with their time in
\* milliseconds since the epoch
IsoTimes ==
    ("1970-01-01T00:00:00.000Z" :> 0) @@
    ("1970-01-02T00:00:00.000Z" :> 24 * 60 * 60 * 1000) @@
    ("1970-01-03T12:00:00.000Z" :> 60 * 60 * 60 * 1000)

\* new Date(timestamp).getTime(): a number is the time value itself, true
\* and null convert to the numbers 1 and 0, a string is parsed, and every
\* other value (undefined, NaN, an object through its string
\* "[object Object]", a string that is no date) gives NaN
getTime(timestamp) ==
    CASE timestamp.type = "number" -> timestamp
      [] timestamp.type = "boolean" -> Num(IF timestamp.val THEN 1 ELSE 0)
      [] timestamp.type = "null" -> Num(0)
      [] timestamp.type = "string" ->
            IF Len(timestamp.val) = 1 /\ timestamp.val[1] \in DOMAIN IsoTimes
            THEN Num(IsoTimes[timestamp.val[1]])
            ELSE NaN
      [] OTHER -> NaN

\* `${n}m ago`, `${n}h ago`, `${n}d ago`
Label(n, unit) == Str(ToString(n) \o unit \o " ago")

\* The minutes counted up to the hour, without the two flat labels
BucketExactMinutes(diffMs) ==
    IF diffMs < 60 * 1000 THEN Str("Just now")
    ELSE IF diffMs < 60 * 60 * 1000 THEN Label(diffMs \div (60 * 1000), "m")
    ELSE IF diffMs < 24 * 60 * 60 * 1000 THEN Label(diffMs \div (60 * 60 * 1000), "h")
    ELSE Label(diffMs \div (24 * 60 * 60 * 1000), "d")

\* A timestamp in the future counted in (negative) minutes
BucketFloorsNegative(diffMs) ==
    IF diffMs < 0 THEN Label(diffMs \div (60 * 1000), "m")
    ELSE IF diffMs < 60 * 1000 THEN Str("Just now")
    ELSE IF diffMs < 10 * 60 * 1000 THEN Label(diffMs \div (60 * 1000), "m")
    ELSE IF diffMs < 30 * 60 * 1000 THEN Str("10m ago")
    ELSE IF diffMs < 60 * 60 * 1000 THEN Str("30m ago")
    ELSE IF diffMs < 24 * 60 * 60 * 1000 THEN Label(diffMs \div (60 * 60 * 1000), "h")
    ELSE Label(diffMs \div (24 * 60 * 60 * 1000), "d")

\* The ladder of comparisons on diffMs; Math.floor of a quotient is \div
Bucket(diffMs) ==
    IF diffMs < 60 * 1000 THEN Str("Just now")
    ELSE IF diffMs < 10 * 60 * 1000 THEN Label(diffMs \div (60 * 1000), "m")
    ELSE IF diffMs < 30 * 60 * 1000 THEN Str("10m ago")
    ELSE IF diffMs < 60 * 60 * 1000 THEN Str("30m ago")
    ELSE IF diffMs < 24 * 60 * 60 * 1000 THEN Label(diffMs \div (60 * 60 * 1000), "h")
    ELSE Label(diffMs \div (24 * 60 * 60 * 1000), "d")

\* Without the test of line 199 the NaN of an invalid date fails every
\* comparison and reaches the last template
formatRelativeTimeNoNaNCheck(timestamp) ==
    IF ~Truthy(timestamp) THEN Str("Not yet")
    ELSE IF getTime(timestamp) = NaN THEN Str("NaNd ago")
    ELSE Bucket(now - getTime(timestamp).val)

\* formatRelativeTime(timestamp), with the variable now for Date.now()
formatRelativeTime(timestamp) ==
    IF ~Truthy(timestamp) THEN Str("Not yet")
    ELSE IF getTime(timestamp) = NaN THEN timestamp
    ELSE Bucket(now - getTime(timestamp).val)

\* The differences now - timestamp the model visits: each threshold with its
\* two neighbours, a point inside each bucket, and timestamps in the future
DiffSamples ==
    { -2 * 24 * 60 * 60 * 1000, -60 * 60 * 1000, -60 * 1000, -1,
      0, 1, 60 * 1000 - 1,
      60 * 1000, 60 * 1000 + 1, 5 * 60 * 1000, 10 * 60 * 1000 - 1,
      10 * 60 * 1000, 10 * 60 * 1000 + 1, 15 * 60 * 1000, 30 * 60 * 1000 - 1,
      30 * 60 * 1000, 30 * 60 * 1000 + 1, 45 * 60 * 1000, 60 * 60 * 1000 - 1,
      60 * 60 * 1000, 60 * 60 * 1000 + 1, 3 * 60 * 60 * 1000, 24 * 60 * 60 * 1000 - 1,
      24 * 60 * 60 * 1000, 24 * 60 * 60 * 1000 + 1, 2 * 24 * 60 * 60 * 1000 }

\* The timestamps a status snapshot may carry: a missing field, null and the
\* other falsy values, date strings, times as numbers, and values that are
\* no date
TimestampInputs ==
    { Undefined, Null, Str(""), Num(0), NaN, Bool(FALSE) }
        \cup { Str(s) : s \in DOMAIN IsoTimes }
        \cup { Num(24 * 60 * 60 * 1000), Bool(TRUE) }
        \cup { Str("yesterday"), Str("n/a"), Obj([seconds |-> Num(5)]) }

\* The readings of Date.now(): each date of the model plus each difference
NowSamples ==
    { n \in { IsoTimes[s] + d : s \in DOMAIN IsoTimes, d \in DiffSamples } : n > 0 }

\* The status strip renders a timestamp of the snapshot
CallFormatRelativeTime ==
    /\ called = <<>>
    /\ called' = <<"formatRelativeTime">>
    /\ ret' = formatRelativeTime(arg)
    /\ UNCHANGED <<arg, now>>
    /\ UNCHANGED <<workflowVars, pollerVars, envVars, pushVars>>

(***************************************************************************)
(* The ideation view: the lists of result.pain_points and of               *)
(* result.product_ideas under {result && (...)}.                           *)
(***************************************************************************)
IdeationViewUnnormalized(r) ==
    LET pains == IF Get(r, "pain_points").type = "array"
                 THEN Get(r, "pain_points").items ELSE <<>>
        ideas == IF Get(r, "product_ideas").type = "array"
                 THEN Get(r, "product_ideas").items ELSE <<>>
    IN  [ pains |-> [ idx \in 1..Len(pains) |-> formatPainPoint(pains[idx]) ],
          cards |-> [ idx \in 1..Len(ideas) |->
                        [ name |-> Get(ideas[idx], "name"),
                          description |-> Get(ideas[idx], "description") ] ] ]

\* normalizeArray(result.pain_points).map(...) gives one <li> with
\* formatPainPoint(pain) each; normalizeObjectArray(result.product_ideas).map(...)
\* gives one card with idea.name and idea.description each
IdeationView(r) ==
    LET pains == normalizeArray(Get(r, "pain_points")).items
        ideas == normalizeObjectArray(Get(r, "product_ideas")).items
    IN  [ pains |-> [ idx \in 1..Len(pains) |-> formatPainPoint(pains[idx]) ],
          cards |-> [ idx \in 1..Len(ideas) |->
                        [ name |-> Get(ideas[idx], "name"),
                          description |-> Get(ideas[idx], "description") ] ] ]

\* The shapes result.pain_points arrives in: missing, null, empty, one bare
\* text, or a list of texts
PainPointsInputs ==
    { Undefined, Null, Str(""), Str("Manual review is slow"),
      Chars(<<"4", ".", " ", "a">>),
      Arr(<<Chars(<<"4", ".", " ", "a">>), Str("Too many alerts")>>) }
        \cup { Arr([idx \in 1..n |-> Str("Manual review is slow")]) : n \in 0..MaxItems - 1 }

\* The shapes result.product_ideas arrives in: missing, null, a number, one
\* bare object, or a list of objects with nothing in some places
ProductIdeasInputs ==
    { Undefined, Null, Num(5),
      Obj([name |-> Str("AutoFlag"), description |-> Str("...")]) }
        \cup { Arr(items) : items \in UNION { [1..n -> {Null,
                                  Obj([name |-> Str("AutoFlag"), description |-> Str("...")])}]
                                               : n \in 0..MaxItems - 1 } }

\* The bodies of the 2xx answers of POST /api/ideation: {data: result}
IdeationBodies ==
    { Obj([data |-> Obj([pain_points |-> p, product_ideas |-> q])]) :
        p \in PainPointsInputs, q \in ProductIdeasInputs }

\* A render of the ideation tab with a result: arg is the result rendered
RenderIdeation ==
    /\ OnScreen
    /\ activeTab = "ideation"
    /\ Truthy(result)
    /\ called = <<>>
    /\ called' = <<"IdeationView">>
    /\ arg' = result
    /\ ret' = IdeationView(result)
    /\ UNCHANGED now
    /\ UNCHANGED <<workflowVars, pollerVars, envVars, pushVars>>

(***************************************************************************)
(* The status poller: useEffect(() => {...}, []).                           *)
(***************************************************************************)
PollIntervalMs == 15000

\* The amounts by which the model lets the clock advance
Delays == {5000, 10000}

\* The bodies of a 2xx answer of GET /api/activity: the snapshot itself, or
\* the snapshot wrapped as {data: snapshot}
StatusBodies ==
    { Obj([jira |-> Str("synced")]),
      Obj([data |-> Obj([slack |-> Str("posted")])]) }

\* Mutant: the snapshot received is merged into the one held
StatusMergedFromBody(body) ==
    LET new == Or(Get(body, "data"), body) IN
    IF integrationStatus.type # "object" THEN new
    ELSE Obj([k \in DOMAIN integrationStatus.props \cup DOMAIN new.props |->
                 IF k \in DOMAIN new.props THEN new.props[k]
                 ELSE integrationStatus.props[k]])

\* response.data.data || response.data
StatusFromBody(body) == Or(Get(body, "data"), body)

\* Mutant: a failed fetch keeps the snapshot held
StatusKeptOnFailure == integrationStatus

\* The value the catch block stores
StatusOnFailure == Null

\* Mutant: the handlers write without looking at `mounted`
AlwaysWrite(id) == TRUE

\* Mutant: a response older than the one that wrote the status is dropped
WriteOnlyIfNewer(id) == mounted /\ id > statusWriter

\* if (mounted), evaluated when the handler of fetch `id` resumes
StatusWriteAllowed(id) == mounted

\* fetchStatus() up to its await: axios.get(...)
IssueFetch ==
    /\ issued' = issued + 1
    /\ inFlight' = inFlight \cup {issued + 1}

\* The effect body: let mounted = true; fetchStatus(); setInterval(fetchStatus, 15000)
RunEffect ==
    /\ effect = "pending"
    /\ effect' = "ran"
    /\ mounted' = TRUE
    /\ IssueFetch
    /\ interval' = TRUE
    /\ timerElapsed' = 0
    /\ UNCHANGED <<integrationStatus, lastCompleted, statusWriter>>
    /\ UNCHANGED <<workflowVars, envVars, pushVars, callVars>>

\* Time passes; an armed interval timer fires before time passes it
TimePasses(d) ==
    /\ interval
    /\ timerElapsed + d <= PollIntervalMs
    /\ timerElapsed' = timerElapsed + d
    /\ UNCHANGED <<integrationStatus, effect, mounted, interval, issued, inFlight,
                   lastCompleted, statusWriter>>
    /\ UNCHANGED <<workflowVars, envVars, pushVars, callVars>>

\* Mutant: the timer stops retrying once a fetch has failed
IntervalTickUntilFailure ==
    /\ interval
    /\ timerElapsed = PollIntervalMs
    /\ issued < MaxFetches
    /\ IF lastCompleted = Null THEN TRUE ELSE lastCompleted.ok
    /\ IssueFetch
    /\ timerElapsed' = 0
    /\ UNCHANGED <<integrationStatus, effect, mounted, interval, lastCompleted, statusWriter>>
    /\ UNCHANGED <<workflowVars, envVars, pushVars, callVars>>

\* The interval timer fires: fetchStatus()
IntervalTick ==
    /\ interval
    /\ timerElapsed = PollIntervalMs
    /\ issued < MaxFetches
    /\ IssueFetch
    /\ timerElapsed' = 0
    /\ UNCHANGED <<integrationStatus, effect, mounted, interval, lastCompleted, statusWriter>>
    /\ UNCHANGED <<workflowVars, envVars, pushVars, callVars>>

\* fetchStatus resumes in its try block
FetchResolved(id, body) ==
    /\ id \in inFlight
    /\ inFlight' = inFlight \ {id}
    /\ lastCompleted' = [id |-> id, ok |-> TRUE, body |-> body]
    /\ IF StatusWriteAllowed(id)
       THEN /\ integrationStatus' = StatusFromBody(body)
            /\ statusWriter' = id
       ELSE UNCHANGED <<integrationStatus, statusWriter>>
    /\ UNCHANGED <<effect, mounted, interval, timerElapsed, issued>>
    /\ UNCHANGED <<workflowVars, envVars, pushVars, callVars>>

\* Mutant: a failed status fetch is shown in the workflow's error banner
FetchRejectedSetsError(id) ==
    /\ id \in inFlight
    /\ ~backendHealthy
    /\ inFlight' = inFlight \ {id}
    /\ lastCompleted' = [id |-> id, ok |-> FALSE, body |-> Null]
    /\ IF StatusWriteAllowed(id)
       THEN /\ integrationStatus' = StatusOnFailure
            /\ statusWriter' = id
       ELSE UNCHANGED <<integrationStatus, statusWriter>>
    /\ error' = Str("Failed to load status")
    /\ UNCHANGED <<effect, mounted, interval, timerElapsed, issued>>
    /\ UNCHANGED <<activeTab, loading, result, pending, lastReply>>
    /\ UNCHANGED <<envVars, pushVars, callVars>>

\* fetchStatus resumes in its catch block (the request failed, which a healthy
\* backend no longer lets happen)
FetchRejected(id) ==
    /\ id \in inFlight
    /\ ~backendHealthy
    /\ inFlight' = inFlight \ {id}
    /\ lastCompleted' = [id |-> id, ok |-> FALSE, body |-> Null]
    /\ IF StatusWriteAllowed(id)
       THEN /\ integrationStatus' = StatusOnFailure
            /\ statusWriter' = id
       ELSE UNCHANGED <<integrationStatus, statusWriter>>
    /\ UNCHANGED <<effect, mounted, interval, timerElapsed, issued>>
    /\ UNCHANGED <<workflowVars, envVars, pushVars, callVars>>

\* The status endpoint recovers: from now on it answers every fetch with 2xx
BackendRecovers ==
    /\ ~backendHealthy
    /\ backendHealthy' = TRUE
    /\ UNCHANGED <<workflowVars, pollerVars, pushVars, callVars>>

\* Mutant: the cleanup does not clear the interval
CleanupLeavesTimer ==
    /\ effect = "ran"
    /\ effect' = "cleaned"
    /\ mounted' = FALSE
    /\ UNCHANGED <<integrationStatus, interval, timerElapsed, issued, inFlight,
                   lastCompleted, statusWriter>>
    /\ UNCHANGED <<workflowVars, envVars, pushVars, callVars>>

\* The effect's cleanup: mounted = false; clearInterval(interval)
Cleanup ==
    /\ effect = "ran"
    /\ effect' = "cleaned"
    /\ mounted' = FALSE
    /\ interval' = FALSE
    /\ UNCHANGED <<integrationStatus, timerElapsed, issued, inFlight, lastCompleted, statusWriter>>
    /\ UNCHANGED <<workflowVars, envVars, pushVars, callVars>>

(***************************************************************************)
(* The specification.                                                      *)
(***************************************************************************)
AppInit ==
    /\ activeTab = "ideation"
    /\ loading = FALSE
    /\ result = Null
    /\ error = Null
    /\ integrationStatus = Null
    /\ pending = <<>>
    /\ lastReply = Null
    /\ effect = "pending"
    /\ mounted = FALSE
    /\ interval = FALSE
    /\ timerElapsed = 0
    /\ issued = 0
    /\ inFlight = {}
    /\ lastCompleted = Null
    /\ statusWriter = 0
    /\ backendHealthy = FALSE
    /\ pushes = <<>>
    /\ lastAlert = Null

Init ==
    /\ AppInit
    /\ called = <<>>
    /\ arg = Undefined
    /\ now = 0
    /\ ret = Undefined

Next ==
    \/ handleIdeation
    \/ handleRequirements
    \/ handleReport
    \/ \E i \in 1..MaxPending : SubmitResolved(i)
    \/ \E i \in 1..MaxPending, err \in AxiosErrors : SubmitRejected(i, err)
    \/ \E key \in tabs : SwitchTab(key)
    \/ RunEffect
    \/ \E d \in Delays : TimePasses(d)
    \/ IntervalTick
    \/ \E id \in 1..MaxFetches, body \in StatusBodies : FetchResolved(id, body)
    \/ \E id \in 1..MaxFetches : FetchRejected(id)
    \/ Cleanup

Spec == Init /\ [][Next]_vars

\* The status poller against a backend that may recover, under the fairness
\* of the event loop: an armed timer fires when due and a request in flight
\* is answered
PollerNext ==
    \/ RunEffect
    \/ \E d \in Delays : TimePasses(d)
    \/ IntervalTick
    \/ \E id \in 1..MaxFetches, body \in StatusBodies : FetchResolved(id, body)
    \/ \E id \in 1..MaxFetches : FetchRejected(id)
    \/ Cleanup
    \/ BackendRecovers

PollerFairness ==
    /\ WF_vars(\E d \in Delays : TimePasses(d))
    /\ WF_vars(IntervalTick)
    /\ WF_vars(\E id \in 1..MaxFetches :
                   \/ \E body \in StatusBodies : FetchResolved(id, body)
                   \/ FetchRejected(id))

PollerFairSpec == Init /\ [][PollerNext]_vars /\ PollerFairness

\* The shape normalizer applied to every input of NormalizerInputs
NormalizerInit ==
    /\ AppInit
    /\ called = <<>>
    /\ arg \in NormalizerInputs
    /\ now = 0
    /\ ret = Undefined

NormalizerNext ==
    \/ Call("normalizeArray")
    \/ Call("normalizeObjectArray")
    \/ Call("formatPainPoint")
    \/ CallAgain

NormalizerSpec == NormalizerInit /\ [][NormalizerNext]_vars

\* formatRelativeTime applied to every timestamp of TimestampInputs at every
\* reading of the clock of NowSamples
TimeInit ==
    /\ AppInit
    /\ called = <<>>
    /\ arg \in TimestampInputs
    /\ now \in NowSamples
    /\ ret = Undefined

TimeNext == CallFormatRelativeTime

TimeSpec == TimeInit /\ [][TimeNext]_vars

\* An ideation submission answered with a loosely shaped result, and the
\* render of that result
RenderNext ==
    \/ RunEffect
    \/ handleIdeation
    \/ \E i \in 1..MaxPending, body \in IdeationBodies : SubmitResolvedWith(i, body)
    \/ RenderIdeation

RenderSpec == Init /\ [][RenderNext]_vars

\* The workflow orchestrator with its one-shot integration actions, from the
\* mount of the component to its unmount
WorkflowNext ==
    \/ handleIdeation
    \/ handleRequirements
    \/ handleReport
    \/ \E i \in 1..MaxPending : SubmitResolved(i)
    \/ \E i \in 1..MaxPending, err \in AxiosErrors : SubmitRejected(i, err)
    \/ \E key \in tabs : SwitchTab(key)
    \/ pushToJira
    \/ sendToSlack
    \/ \E i \in 1..MaxPushes : PushResolved(i)
    \/ \E i \in 1..MaxPushes : PushRejected(i)
    \/ RunEffect
    \/ Cleanup

WorkflowSpec == Init /\ [][WorkflowNext]_vars

\* The same under the fairness of the network: a request that is outstanding
\* is answered, with a response or with an error
ResponseFairness ==
    WF_vars(\E i \in 1..MaxPending :
                \/ SubmitResolved(i)
                \/ \E err \in AxiosErrors : SubmitRejected(i, err))

WorkflowFairSpec == Init /\ [][WorkflowNext]_vars /\ ResponseFairness

\* The two state owners side by side: the workflow events (submit, answer,
\* tab switch, pushes) interleaved with the events of the status fetch that
\* the mount issues (issue, success, failure, teardown)
AppNext ==
    \/ WorkflowNext
    \/ \E id \in 1..MaxFetches, body \in StatusBodies : FetchResolved(id, body)
    \/ \E id \in 1..MaxFetches : FetchRejected(id)

AppSpec == Init /\ [][AppNext]_vars

(***************************************************************************)
(* Helpers of the properties.                                              *)
(***************************************************************************)
\* The status fetches that have completed
CompletedFetches == (1..issued) \ inFlight

\* A step in which the submit handler of pending[i] resumes and finishes
SubmitCompletes(i) == i \in 1..Len(pending) /\ pending' = RemoveAt(pending, i)

\* The detail field of the error response of a rejection (undefined when the
\* rejection has no response, or its body has no detail)
DetailOf(err) == OptGet(OptGet(Get(err, "response"), "data"), "detail")

\* The snapshot a status body carries: the data field of a wrapped body, else the body
SnapshotOf(body) == IF "data" \in DOMAIN body.props THEN body.props.data ELSE body

(***************************************************************************)
(* C1. Tab-switch race: when the response of a submission issued on one    *)
(* tab is handled while another tab is active, it changes neither the      *)
(* result nor the error shown: the late reply is discarded.                *)
(* The handlers do not look at the tab, so this is violated.               *)
(***************************************************************************)
C1_LateReplyDiscarded ==
    [][\A i \in 1..MaxPending :
          (SubmitCompletes(i) /\ pending[i] # activeTab)
              => (result' = result /\ error' = error)]_vars

(***************************************************************************)
(* C2. Teardown safety: once the effect's cleanup has run, no step changes *)
(* integrationStatus; a fetch in flight at teardown that resolves or fails *)
(* afterwards leaves the held status as it was at teardown.                *)
(***************************************************************************)
C2_TeardownSafety ==
    [][effect = "cleaned" => integrationStatus' = integrationStatus]_vars

\* A fetch succeeded after the teardown and its handler did not write
C2_Witness ==
    /\ effect = "cleaned"
    /\ lastCompleted # Null
    /\ lastCompleted.ok
    /\ statusWriter # lastCompleted.id

(***************************************************************************)
(* C3. At most one workflow submission is in flight at any time, and while *)
(* loading is true no step issues a request (a submit is a no-op).          *)
(***************************************************************************)
C3_SingleSubmission ==
    /\ [](Len(pending) <= 1)
    /\ [][loading => Len(pending') <= Len(pending)]_vars

\* A submission is outstanding while the user is on another tab, whose form
\* has its own submit button
C3_Witness ==
    /\ loading
    /\ Len(pending) = 1
    /\ pending[1] # activeTab

(***************************************************************************)
(* C4. A tab switch forces Idle: right after the active tab changes,       *)
(* loading is false and neither a result nor an error is held.             *)
(* The tab button leaves loading alone, so this is violated.               *)
(***************************************************************************)
C4_SwitchForcesIdle ==
    [][activeTab' # activeTab
          => (~loading' /\ result' = Null /\ error' = Null)]_vars

(***************************************************************************)
(* C5. A new submission discards the stored result: while a submission is  *)
(* outstanding (loading), no result is held.                                *)
(* The submit handlers clear the error only, so this is violated.           *)
(***************************************************************************)
C5_SubmitDiscardsResult == loading => result = Null

(***************************************************************************)
(* C6. Submission outcomes. As claimed: a handled success leaves loading   *)
(* false and stores the data of the response as the result; a handled      *)
(* failure leaves loading false and stores the detail of the error         *)
(* response if it is present, else the fallback of the action.             *)
(***************************************************************************)
C6_OutcomeDetailIfPresent ==
    [][\A i \in 1..MaxPending :
          SubmitCompletes(i) =>
              /\ ~loading'
              /\ lastReply'.ok => result' = lastReply'.value.props.data
              /\ ~lastReply'.ok =>
                    error' = IF DetailOf(lastReply'.value) # Undefined
                             THEN DetailOf(lastReply'.value)
                             ELSE Fallback(pending[i])]_vars

(***************************************************************************)
(* C6, as amended: the same, the detail being stored if it is present and  *)
(* not empty (truthy); an absent or empty detail gives the fallback.        *)
(***************************************************************************)
C6_OutcomeDetailIfNonEmpty ==
    [][\A i \in 1..MaxPending :
          SubmitCompletes(i) =>
              /\ ~loading'
              /\ lastReply'.ok => result' = lastReply'.value.props.data
              /\ ~lastReply'.ok =>
                    error' = IF /\ DetailOf(lastReply'.value) # Undefined
                                /\ DetailOf(lastReply'.value) # Str("")
                             THEN DetailOf(lastReply'.value)
                             ELSE Fallback(pending[i])]_vars

\* A rejection whose detail is the empty string was handled: the fallback shows
C6_Witness ==
    /\ lastReply # Null
    /\ ~lastReply.ok
    /\ DetailOf(lastReply.value) = Str("")
    /\ ~loading
    /\ error = Fallback(activeTab)

(***************************************************************************)
(* C7. A status fetch that fails while the poller is active resets the     *)
(* held status to null, whatever it was, and sets no error state.          *)
(***************************************************************************)
C7_FailureResetsStatus ==
    [][(effect = "ran" /\ inFlight' # inFlight /\ issued' = issued /\ ~lastCompleted'.ok)
          => (integrationStatus' = Null /\ error' = error)]_vars

\* The second fetch failed after the first had completed, and the status is null
C7_Witness ==
    /\ effect = "ran"
    /\ lastCompleted # Null
    /\ ~lastCompleted.ok
    /\ lastCompleted.id = 2
    /\ 1 \in CompletedFetches
    /\ integrationStatus = Null

(***************************************************************************)
(* C8. Ordering guarantee: while the poller is active the held status is   *)
(* the outcome of the fetch that completed last: the snapshot of its body  *)
(* if it succeeded (not merged with the one held before), null if it       *)
(* failed; before any fetch completes it is the initial null.              *)
(***************************************************************************)
C8_StatusOfLastCompleted ==
    effect = "ran" =>
        integrationStatus =
            IF lastCompleted = Null THEN Null
            ELSE IF lastCompleted.ok THEN SnapshotOf(lastCompleted.body)
            ELSE Null

\* Out-of-order completion: fetch 1 succeeded after fetch 2 had completed
C8_Witness ==
    /\ effect = "ran"
    /\ lastCompleted # Null
    /\ lastCompleted.ok
    /\ lastCompleted.id = 1
    /\ 2 \in CompletedFetches

(***************************************************************************)
(* C9. No stale overwrite, as claimed: while the poller is active the held *)
(* status was never written by a fetch older than one that has completed.  *)
(* Nothing orders the writes by issue, so this is violated.                *)
(***************************************************************************)
C9_NoStaleOverwrite ==
    (effect = "ran" /\ statusWriter # 0)
        => \A id \in CompletedFetches : id <= statusWriter

(***************************************************************************)
(* C9, as amended: writes are applied in completion order and the last     *)
(* writer wins: while the poller is active the status was written by the   *)
(* fetch that completed last, so an older response overwrites a newer one  *)
(* exactly when it completes after it.                                      *)
(***************************************************************************)
C9_LastCompletedWrites ==
    effect = "ran" =>
        statusWriter = IF lastCompleted = Null THEN 0 ELSE lastCompleted.id

\* The older fetch 1 wrote the status after the newer fetch 2 had written it
C9_Witness ==
    /\ effect = "ran"
    /\ statusWriter = 1
    /\ 2 \in CompletedFetches
    /\ inFlight = {}

(***************************************************************************)
(* C10. Poller schedule: the activation issues one fetch and arms the      *)
(* timer; while active a fetch is issued only by a tick, when a full       *)
(* 15,000 ms have elapsed since the last one, and time never passes a due  *)
(* tick; after the teardown the timer is cancelled and no fetch is issued. *)
(***************************************************************************)
C10_PollerSchedule ==
    [][/\ (effect = "pending" /\ effect' = "ran")
            => (issued' = issued + 1 /\ inFlight' = inFlight \cup {issued'}
                /\ interval' /\ timerElapsed' = 0)
       /\ (effect = "ran" /\ effect' = "ran" /\ issued' # issued)
            => (issued' = issued + 1 /\ inFlight' = inFlight \cup {issued'}
                /\ timerElapsed = PollIntervalMs /\ timerElapsed' = 0)
       /\ (effect = "ran" /\ effect' = "ran")
            => (interval' /\ timerElapsed' <= PollIntervalMs)
       /\ effect' = "cleaned"
            => (issued' = issued /\ ~interval')]_vars

\* Torn down when a tick was due and more fetches could have been issued
C10_Witness ==
    /\ effect = "cleaned"
    /\ issued = 2
    /\ timerElapsed = PollIntervalMs

(***************************************************************************)
(* C11. The one-shot integration actions: a push request is issued only    *)
(* while a result is held; issuing it and handling its response, success   *)
(* or failure, leave activeTab, loading, result and error as they were; a  *)
(* handled response raises the alert of its outcome and nothing else.      *)
(***************************************************************************)
C11_PushesGatedAndFramed ==
    [][/\ Len(pushes') > Len(pushes) => Truthy(result)
       /\ (pushes' # pushes \/ lastAlert' # lastAlert)
            => UNCHANGED <<activeTab, loading, result, error>>
       /\ \A i \in 1..MaxPushes :
            (i \in 1..Len(pushes) /\ pushes' = RemoveAt(pushes, i))
                => lastAlert' \in {SuccessAlert(pushes[i]), FailureAlert(pushes[i])}]_vars

\* A push failed while a result was held: the alert is raised and no error is set
C11_Witness ==
    /\ lastAlert = FailureAlert("jira")
    /\ Truthy(result)
    /\ error = Null
    /\ pushes = <<>>

(***************************************************************************)
(* C12. Status self-healing: while the poller is active a fetch that       *)
(* succeeds stores its snapshot, whatever failed before it; when a tick is *)
(* due after a failure a new fetch can be issued; a failed fetch leaves    *)
(* the workflow error alone; and, the timer and the responses being fair,  *)
(* once the backend answers successfully an active poller that has a fetch *)
(* in flight or a tick to come reaches a non-absent status (unless it is   *)
(* torn down first).                                                        *)
(***************************************************************************)
C12_SelfHealing ==
    /\ [][(effect = "ran" /\ inFlight' # inFlight /\ issued' = issued)
            => /\ error' = error
               /\ lastCompleted'.ok => integrationStatus' = SnapshotOf(lastCompleted'.body)]_vars
    /\ [](( /\ interval
            /\ timerElapsed = PollIntervalMs
            /\ issued < MaxFetches) => ENABLED IntervalTick)
    /\ ( /\ effect = "ran"
         /\ backendHealthy
         /\ (inFlight # {} \/ issued < MaxFetches) )
        ~> (integrationStatus # Null \/ effect = "cleaned")

\* The first fetch failed and left the status absent, the backend has
\* recovered since, nothing is in flight and the next tick is due: the retry
C12_Witness ==
    /\ effect = "ran"
    /\ backendHealthy
    /\ lastCompleted # Null
    /\ ~lastCompleted.ok
    /\ integrationStatus = Null
    /\ inFlight = {}
    /\ timerElapsed = PollIntervalMs
    /\ ENABLED IntervalTick

(***************************************************************************)
(* C13. normalizeArray is total: an array is returned unchanged; null,     *)
(* undefined and the empty string give the empty array; every other value  *)
(* x, 0 and false included, gives the one-element array [x].               *)
(***************************************************************************)
C13_NormalizeArray ==
    called = <<"normalizeArray">> =>
        ret = IF arg.type = "array" THEN arg
              ELSE IF arg \in {Null, Undefined, Chars(<<>>)} THEN Arr(<<>>)
              ELSE Arr(<<arg>>)

\* The falsy number 0 is wrapped, not dropped
C13_Witness ==
    /\ called = <<"normalizeArray">>
    /\ arg = Num(0)
    /\ ret = Arr(<<Num(0)>>)

(***************************************************************************)
(* C14. normalizeObjectArray: an array is returned without its falsy       *)
(* entries (null, undefined, false, 0, ""), the others in their order; an  *)
(* object that is neither null nor an array gives the one-element array;   *)
(* every other value gives the empty array. The array returned holds no    *)
(* falsy entry.                                                             *)
(***************************************************************************)
FalsyEntries == {Null, Undefined, Bool(FALSE), Num(0), Chars(<<>>)}

C14_NormalizeObjectArray ==
    called = <<"normalizeObjectArray">> =>
        /\ ret.type = "array"
        /\ \A i \in 1..Len(ret.items) : ret.items[i] \notin FalsyEntries
        /\ ret.items =
              IF arg.type = "array"
              THEN SelectSeq(arg.items, LAMBDA x : x \notin FalsyEntries)
              ELSE IF arg.type = "object" THEN <<arg>>
              ELSE <<>>

\* [null, obj1, obj2] gives [obj1, obj2]
C14_Witness ==
    /\ called = <<"normalizeObjectArray">>
    /\ arg = Arr(<<Null, Obj([name |-> Str("AutoFlag")]), Obj([a |-> Num(1)])>>)
    /\ ret = Arr(<<Obj([name |-> Str("AutoFlag")]), Obj([a |-> Num(1)])>>)

(***************************************************************************)
(* C15. Idempotence: applying a list normalizer to what it returned        *)
(* returns the same value.                                                  *)
(***************************************************************************)
C15_Idempotent ==
    [][(Len(called) = 1 /\ called' = called \o called) => ret' = ret]_vars

\* normalizeObjectArray applied twice to an array that had a falsy entry
C15_Witness ==
    /\ called = <<"normalizeObjectArray", "normalizeObjectArray">>
    /\ arg = Arr(<<Num(0), Obj([a |-> Num(1)])>>)
    /\ ret = Arr(<<Obj([a |-> Num(1)])>>)

(***************************************************************************)
(* C16. formatPainPoint on a string: one leading enumeration prefix (white *)
(* space, digits, a '.' or ')', white space) is stripped and the rest      *)
(* trimmed; a string without such a prefix is returned trimmed; when this  *)
(* leaves nothing the original string is returned untrimmed, so that a     *)
(* non-empty string never gives the empty string.                          *)
(***************************************************************************)
\* cs[lo..hi] holds only characters of cls
AllIn(cs, lo, hi, cls) == \A n \in lo..hi : cs[n] \in cls

\* cs starts with white space up to i, digits up to j (at least one), a '.'
\* or ')' and white space up to k, which is where the white space ends
EnumerationPrefix(cs, i, j, k) ==
    /\ 0 <= i /\ i < j /\ j < k /\ k <= Len(cs)
    /\ AllIn(cs, 1, i, WhiteSpace)
    /\ AllIn(cs, i + 1, j, Digits)
    /\ cs[j + 1] \in {".", ")"}
    /\ AllIn(cs, j + 2, k, WhiteSpace)
    /\ (k < Len(cs) => cs[k + 1] \notin WhiteSpace)

\* t is cs without the white space at its two ends
IsTrimOf(t, cs) ==
    /\ t = <<>> \/ (t[1] \notin WhiteSpace /\ t[Len(t)] \notin WhiteSpace)
    /\ \E a \in 0..Len(cs) :
          /\ a + Len(t) <= Len(cs)
          /\ SubSeq(cs, a + 1, a + Len(t)) = t
          /\ AllIn(cs, 1, a, WhiteSpace)
          /\ AllIn(cs, a + Len(t) + 1, Len(cs), WhiteSpace)

\* out is what cleaning the text `rest` of the original `cs` gives
CleanedTo(out, rest, cs) ==
    IF AllIn(rest, 1, Len(rest), WhiteSpace) THEN out = cs ELSE IsTrimOf(out, rest)

C16_FormatPainPointString ==
    (called = <<"formatPainPoint">> /\ arg.type = "string" /\ arg.val # <<>>) =>
        /\ ret.type = "string"
        /\ ret.val # <<>>
        /\ LET cs == arg.val
               idx == 0..Len(cs)
           IN  IF \E i, j, k \in idx : EnumerationPrefix(cs, i, j, k)
               THEN \A i, j, k \in idx :
                       EnumerationPrefix(cs, i, j, k)
                           => CleanedTo(ret.val, SubSeq(cs, k + 1, Len(cs)), cs)
               ELSE CleanedTo(ret.val, cs, cs)

\* "42." strips to nothing and is returned as it is
C16_Witness ==
    /\ called = <<"formatPainPoint">>
    /\ arg = Chars(<<"4", "2", ".">>)
    /\ ret = Chars(<<"4", "2", ".">>)

(***************************************************************************)
(* C17. formatPainPoint on a value that is not a string, as claimed: the   *)
(* value is returned unchanged, null, undefined, 0 and false included.     *)
(* The guard on falsy input comes first, so this is violated.              *)
(***************************************************************************)
C17_NonStringUnchanged ==
    (called = <<"formatPainPoint">> /\ arg.type # "string") => ret = arg

(***************************************************************************)
(* C17, as amended: a value that is not a string is returned unchanged if  *)
(* it is truthy (a non-zero number, true, an object, an array); null,      *)
(* undefined, 0, NaN and false give the empty string.                      *)
(***************************************************************************)
C17_NonStringUnchangedIfTruthy ==
    (called = <<"formatPainPoint">> /\ arg.type # "string") =>
        ret = IF arg \in {Null, Undefined, Num(0), NaN, Bool(FALSE)}
              THEN Chars(<<>>)
              ELSE arg

\* The number 0 gives the empty string
C17_Witness ==
    /\ called = <<"formatPainPoint">>
    /\ arg = Num(0)
    /\ ret = Chars(<<>>)

(***************************************************************************)
(* Time bucketing (TimeSpec).                                              *)
(***************************************************************************)
\* formatRelativeTime has returned and the timestamp reached the ladder of
\* comparisons: it is truthy and a date
Classified ==
    /\ called = <<"formatRelativeTime">>
    /\ Truthy(arg)
    /\ getTime(arg) # NaN

\* diff = now - parsed(timestamp), in milliseconds
Diff == now - getTime(arg).val

\* ret is the label of the count n, n * size <= d < (n + 1) * size
CountLabel(d, size, unit) ==
    \E n \in 0..23 :
        /\ n * size <= d
        /\ d < (n + 1) * size
        /\ ret = Str(ToString(n) \o unit)

\* The six buckets of a difference d, by number
InBucket(b, d) ==
    CASE b = 1 -> d < 60000
      [] b = 2 -> 60000 <= d /\ d < 600000
      [] b = 3 -> 600000 <= d /\ d < 1800000
      [] b = 4 -> 1800000 <= d /\ d < 3600000
      [] b = 5 -> 3600000 <= d /\ d < 86400000
      [] b = 6 -> 86400000 <= d

\* C18: for every diff >= 0 of a parsed timestamp the label is "Just now"
\* below one minute, the exact minutes below ten minutes, the fixed
\* "10m ago" below thirty minutes, the fixed "30m ago" below one hour, the
\* exact hours below one day and the exact days from there on; every diff
\* falls in exactly one bucket, the boundary values included.
C18_Buckets ==
    (Classified /\ Diff >= 0) =>
        /\ Cardinality({ b \in 1..6 : InBucket(b, Diff) }) = 1
        /\ InBucket(1, Diff) => ret = Str("Just now")
        /\ InBucket(2, Diff) => CountLabel(Diff, 60000, "m ago")
        /\ InBucket(3, Diff) => ret = Str("10m ago")
        /\ InBucket(4, Diff) => ret = Str("30m ago")
        /\ InBucket(5, Diff) => CountLabel(Diff, 3600000, "h ago")
        /\ InBucket(6, Diff) => CountLabel(Diff, 86400000, "d ago")

\* A timestamp exactly ten minutes old got the flat label, not "10m ago" as a
\* count of the bucket below
C18_Witness ==
    /\ Classified
    /\ arg = Str("1970-01-02T00:00:00.000Z")
    /\ Diff = 600000
    /\ ret = Str("10m ago")

\* C19: a timestamp in the future of now (diff < 0) is labelled "Just now":
\* the function returns, and with no negative count.
C19_FutureIsJustNow ==
    (Classified /\ Diff < 0) => ret = Str("Just now")

\* A timestamp two days ahead of the clock was labelled
C19_Witness ==
    /\ Classified
    /\ Diff = -172800000
    /\ ret = Str("Just now")

\* The function returned: a label, or the timestamp itself
Returned ==
    /\ called = <<"formatRelativeTime">>
    /\ ret.type = "string" \/ ret = arg

\* C20 (as stated): an absent or null timestamp yields "Not yet", and every
\* other timestamp that is no date is returned as it came.
C20_BadInput ==
    called = <<"formatRelativeTime">> =>
        /\ Returned
        /\ arg \in {Undefined, Null} => ret = Str("Not yet")
        /\ (arg \notin {Undefined, Null} /\ getTime(arg) = NaN) => ret = arg

\* C20 (amended): every falsy timestamp (absent, null, the empty string, 0,
\* NaN, false) yields "Not yet"; a truthy timestamp that is no date is
\* returned as it came; the function always returns.
C20_BadInputFalsyNotYet ==
    called = <<"formatRelativeTime">> =>
        /\ Returned
        /\ arg \in {Undefined, Null, Str(""), Num(0), NaN, Bool(FALSE)}
              => ret = Str("Not yet")
        /\ (arg \notin {Undefined, Null, Str(""), Num(0), NaN, Bool(FALSE)}
              /\ getTime(arg) = NaN) => ret = arg

\* A text that is no date came back as it was
C20_Witness ==
    /\ called = <<"formatRelativeTime">>
    /\ arg = Str("n/a")
    /\ getTime(arg) = NaN
    /\ ret = Str("n/a")

(***************************************************************************)
(* The ideation view (RenderSpec).                                         *)
(***************************************************************************)
\* The length of the list a field is shown as: a list has its own length
\* (for product ideas, without the places holding nothing), a missing, null
\* or empty field none, and one bare value one
ShownCount(v, objects) ==
    IF v.type = "array"
    THEN IF objects THEN Len(SelectSeq(v.items, LAMBDA x : x \notin FalsyEntries))
         ELSE Len(v.items)
    ELSE IF v \in {Null, Undefined, Str("")} THEN 0
    ELSE IF objects /\ v.type # "object" THEN 0
    ELSE 1

\* C21: the ideation view shows as many pain points as toScalarList gives
\* for result.pain_points and as many idea cards as toObjectList gives for
\* result.product_ideas; one bare string and one bare object are shown as
\* exactly one pain point with that string and one card of that object.
C21_IdeationViewCounts ==
    called = <<"IdeationView">> =>
        LET p == Get(arg, "pain_points")
            q == Get(arg, "product_ideas")
        IN  /\ Len(ret.pains) = ShownCount(p, FALSE)
            /\ Len(ret.cards) = ShownCount(q, TRUE)
            /\ Len(ret.pains) = Len(normalizeArray(p).items)
            /\ Len(ret.cards) = Len(normalizeObjectArray(q).items)
            /\ (p = Str("Manual review is slow") /\ q.type = "object") =>
                    /\ ret.pains = <<p>>
                    /\ ret.cards = << [name |-> Get(q, "name"),
                                       description |-> Get(q, "description")] >>

\* The result of the scenario, {pain_points: "Manual review is slow",
\* product_ideas: {name: "AutoFlag", description: "..."}}, arrived as the
\* answer of a submission and was rendered as one pain point and one card
C21_Witness ==
    /\ called = <<"IdeationView">>
    /\ lastReply # Null
    /\ arg = Obj([pain_points |-> Str("Manual review is slow"),
                  product_ideas |-> Obj([name |-> Str("AutoFlag"),
                                         description |-> Str("...")])])
    /\ ret.pains = << Str("Manual review is slow") >>
    /\ ret.cards = << [name |-> Str("AutoFlag"), description |-> Str("...")] >>

(***************************************************************************)
(* The states of the workflow state machine, read off the fields.          *)
(***************************************************************************)
Idle == ~loading /\ result = Null /\ error = Null
Submitting == loading /\ result = Null /\ error = Null
Success == ~loading /\ result # Null /\ error = Null
Failed == ~loading /\ result = Null /\ error # Null

\* C22: the orchestrator is in exactly one of Idle, Submitting, Success and
\* Failed: a result and an error are never held together, and neither is
\* held while a submission is outstanding.
\* The submit handlers and the catch branch leave the result of an earlier
\* submission in place, so this is violated.
C22_ExclusiveStates ==
    /\ Cardinality({ st \in {"Idle", "Submitting", "Success", "Failed"} :
                       CASE st = "Idle" -> Idle
                         [] st = "Submitting" -> Submitting
                         [] st = "Success" -> Success
                         [] st = "Failed" -> Failed }) = 1
    /\ ~(result # Null /\ error # Null)
    /\ loading => (result = Null /\ error = Null)

\* C23: the step that handles the answer of a submission, success or
\* error, leaves loading false whatever tab is active by then, so the submit
\* button is enabled again; and when answers do arrive, a submission that
\* is outstanding (loading) leads to loading being false.
C23_SubmissionTerminates ==
    /\ [][\A i \in 1..MaxPending :
              SubmitCompletes(i) => (~loading' /\ SubmitEnabled')]_vars
    /\ loading ~> ~loading

\* The requirements submission failed after the user had gone to the
\* reporting tab: its message is shown there and the form can be submitted
C23_Witness ==
    /\ activeTab = "reporting"
    /\ lastReply # Null
    /\ error = Fallback("requirements")
    /\ pending = <<>>
    /\ ~loading
    /\ ENABLED handleReport

\* C24: loading is true exactly when a workflow submission has been issued
\* and its answer has not been handled yet, whatever submit, answer, tab
\* switch, push and status fetch events have happened.
C24_LoadingIffInFlight == loading <=> (pending # <<>>)

\* A submission is outstanding on a tab the user has left, while a push is
\* outstanding too and a status fetch has been answered
C24_Witness ==
    /\ loading
    /\ Len(pending) = 1
    /\ pending[1] # activeTab
    /\ pushes # <<>>
    /\ lastCompleted # Null

\* A step of the workflow owner: it changes a field of the orchestrator, its
\* outstanding submissions or pushes, or the alert shown
WorkflowEvent == <<workflowVars, pushVars>>' # <<workflowVars, pushVars>>

\* A step of the status poller: it changes the effect, the timer, the
\* fetches or the status held
PollerEvent == pollerVars' # pollerVars

\* C25: no workflow event (submit, answer of a submission, tab switch,
\* pushToJira, sendToSlack and their answers) changes integrationStatus, and
\* no poller event (fetch issue, fetch success, fetch failure, teardown)
\* changes activeTab, loading, result or error.
C25_FrameSeparation ==
    [][/\ WorkflowEvent => integrationStatus' = integrationStatus
       /\ PollerEvent => UNCHANGED <<activeTab, loading, result, error>>]_vars

\* Both owners have written: a status snapshot stored by a fetch is held
\* next to the result of a submission, after a push was answered
C25_Witness ==
    /\ integrationStatus # Null
    /\ statusWriter # 0
    /\ result # Null
    /\ lastAlert # Null
    /\ lastReply # Null
    /\ ~loading

====
